---- MODULE Spec2Model ----
(***************************************************************************)
(* Model of sync.py (Git-Sync-System): the GitSync poll loop               *)
(* (check_identity, get_modified_files, is_ahead, sync, commit_and_push,   *)
(* pull_changes), repair_connection and main's loop.                       *)
(*                                                                         *)
(* Time is counted in poll periods: one Sleep step is one                  *)
(* time.sleep(self.interval).  Text (git's stdout, paths) is a sequence of *)
(* one-character strings, so that strip(), splitlines() and slicing are    *)
(* computed as Python computes them.                                       *)
(***************************************************************************)
EXTENDS Integers, Sequences, FiniteSets, TLC

\* ------------------------------------------------------------------ bounds
\* the clock stops advancing at MaxTime
MaxTime == 3
\* idle_threshold is 0 or MaxThreshold
MaxThreshold == 2
\* at most MaxAhead local commits are ever left unpushed
MaxAhead == 2

None == "None"

\* an optional number (a time, a duration): NoTime is Python's None
NoTime == <<>>
At(v) == <<v>>

\* ------------------------------------------------------------------ text
NL == "\n"
SP == " "
QUOTE == "\""

IsSpace(c) == c \in {SP, NL}

RECURSIVE LStrip(_)
LStrip(s) ==
  IF s # <<>> /\ IsSpace(Head(s)) THEN LStrip(Tail(s)) ELSE s

RECURSIVE RStrip(_)
RStrip(s) ==
  IF s # <<>> /\ IsSpace(s[Len(s)]) THEN RStrip(SubSeq(s, 1, Len(s) - 1)) ELSE s

\* str.strip()
Strip(s) == RStrip(LStrip(s))

\* str.splitlines(), on text whose only line break is "\n"
RECURSIVE SplitLinesFrom(_, _)
SplitLinesFrom(s, cur) ==
  IF s = <<>> THEN (IF cur = <<>> THEN <<>> ELSE <<cur>>)
  ELSE IF Head(s) = NL THEN <<cur>> \o SplitLinesFrom(Tail(s), <<>>)
  ELSE SplitLinesFrom(Tail(s), Append(cur, Head(s)))

SplitLines(s) == SplitLinesFrom(s, <<>>)

\* s[k:] with k >= 0 (Python slice, 0-based)
SliceFrom(s, k) == IF k >= Len(s) THEN <<>> ELSE SubSeq(s, k + 1, Len(s))

\* s[1:-1]
Unquote(s) == IF Len(s) <= 2 THEN <<>> ELSE SubSeq(s, 2, Len(s) - 1)

\* ------------------------------------------------------------------ the working tree
\* The paths of the vault, in the order git status lists them (byte order).
\* The second one holds a space, so git status prints it quoted.
PathNames == << <<"a">>, <<"n", SP, "b">> >>
PathIds == 1..Len(PathNames)

HasSpace(p) == \E k \in 1..Len(p) : p[k] = SP

\* how git status --porcelain prints a path
QuotedPath(p) == IF HasSpace(p) THEN <<QUOTE>> \o p \o <<QUOTE>> ELSE p

\* A path's state: kind "clean", "M" (tracked, modified), "D" (tracked,
\* deleted from disk), "U" (not in HEAD: untracked, or added once staged);
\* staged: the change is in the index; mtime: the file's modification time
\* (0 when the file is not on disk or is clean).
CleanFile == [kind |-> "clean", staged |-> FALSE, mtime |-> 0]

IsDirty(t) == \E i \in PathIds : t[i].kind # "clean"
OnDisk(f) == f.kind \in {"M", "U"}

\* the XY columns of a porcelain line
StatusX(f) ==
  IF f.staged THEN (IF f.kind = "U" THEN "A" ELSE f.kind)
  ELSE (IF f.kind = "U" THEN "?" ELSE SP)
StatusY(f) ==
  IF f.staged THEN SP ELSE (IF f.kind = "U" THEN "?" ELSE f.kind)

StatusLine(t, i) == <<StatusX(t[i]), StatusY(t[i]), SP>> \o QuotedPath(PathNames[i]) \o <<NL>>

\* tracked changes first, untracked ("??") last, each group in path order
RECURSIVE StatusLines(_, _, _)
StatusLines(t, i, untracked) ==
  IF i > Len(PathNames) THEN <<>>
  ELSE (IF t[i].kind # "clean" /\ ((t[i].kind = "U" /\ ~t[i].staged) <=> untracked)
          THEN StatusLine(t, i) ELSE <<>>)
       \o StatusLines(t, i + 1, untracked)

\* stdout of git status --porcelain
StatusOutput(t) == StatusLines(t, 1, FALSE) \o StatusLines(t, 1, TRUE)

\* ------------------------------------------------------------------ run_git
\* What happens to one command: "ok" it runs and git answers as the
\* repository's state decides, "fail" git exits non-zero for a reason outside
\* the model (lock file, network), "err" the process cannot be started
\* (any exception but CalledProcessError).
Inp == {"ok", "fail", "err"}

\* run_git(args, check): "ret" returns stdout stripped, "cpe" raises
\* CalledProcessError, "exc" raises another Exception.
\* rc and out are git's exit status and stdout when the command runs.
run_git(inp, rc, out, check) ==
  IF inp = "err" THEN [x |-> "exc", out |-> <<>>]
  ELSE IF check /\ (inp = "fail" \/ rc # 0) THEN [x |-> "cpe", out |-> <<>>]
  ELSE [x |-> "ret", out |-> IF inp = "fail" THEN <<>> ELSE Strip(out)]

Raised(r) == r.x \in {"cpe", "exc"}

\* ------------------------------------------------------------------ get_modified_files
StartsWithQuote(s) == s # <<>> /\ Head(s) = QUOTE
EndsWithQuote(s) == s # <<>> /\ s[Len(s)] = QUOTE

\* one status line to a path: line[3:].strip(), unquoted
ParseLine(line) ==
  LET file_path == Strip(SliceFrom(line, 3))
  IN IF StartsWithQuote(file_path) /\ EndsWithQuote(file_path)
       THEN Unquote(file_path) ELSE file_path

RECURSIVE ParseLines(_)
ParseLines(lines) ==
  IF lines = <<>> THEN <<>>
  ELSE (IF Len(Head(lines)) > 3 THEN <<ParseLine(Head(lines))>> ELSE <<>>)
       \o ParseLines(Tail(lines))

\* get_modified_files, given what run_git(["status", "--porcelain"]) did
get_modified_files(r) ==
  IF r.x # "ret" THEN <<>>
  ELSE IF r.out = <<>> THEN <<>>
  ELSE ParseLines(SplitLines(r.out))

\* ------------------------------------------------------------------ get_latest_mtime
\* os.path.exists(full_path) and os.path.getmtime(full_path)
PathExists(t, p) == \E i \in PathIds : PathNames[i] = p /\ OnDisk(t[i])

Max2(a, b) == IF a > b THEN a ELSE b

RECURSIVE LatestFrom(_, _, _)
LatestFrom(t, files, max_mtime) ==
  IF files = <<>> THEN max_mtime
  ELSE LatestFrom(t, Tail(files),
         IF PathExists(t, Head(files))
           THEN Max2(max_mtime, t[CHOOSE i \in PathIds : PathNames[i] = Head(files)].mtime)
           ELSE max_mtime)

get_latest_mtime(t, files) == LatestFrom(t, files, 0)

\* ------------------------------------------------------------------ is_ahead
DigitChars == <<"0", "1", "2", "3", "4", "5", "6", "7", "8", "9">>
IsDigitChar(c) == \E k \in 1..Len(DigitChars) : DigitChars[k] = c
DigitValue(c) == (CHOOSE k \in 1..Len(DigitChars) : DigitChars[k] = c) - 1

\* a count below ten as git prints it
CountText(n) == <<DigitChars[n + 1]>>

\* str.isdigit()
IsDigit(s) == s # <<>> /\ \A k \in 1..Len(s) : IsDigitChar(s[k])

\* int(s), for a string of digits
RECURSIVE ToInt(_)
ToInt(s) == IF s = <<>> THEN 0 ELSE 10 * ToInt(SubSeq(s, 1, Len(s) - 1)) + DigitValue(s[Len(s)])

\* is_ahead, given what run_git(["rev-list", "--count", "origin/main..main"], check=False) did
is_ahead(r) ==
  IF r.x # "ret" THEN FALSE
  ELSE r.out # <<>> /\ IsDigit(r.out) /\ ToInt(r.out) > 0

\* ------------------------------------------------------------------ git, as the commands use it
\* The repository and git's configuration, as one record w:
\*   tree        the working tree and index
\*   localAhead  commits of main that the remote does not have
\*   tracking    refs/remotes/origin/main exists and is main's upstream
\*   remote      "same", "ahead" (the remote has new commits) or "conflict"
\*               (new commits that a rebase of main cannot take)
\*   origin      URL of the remote named origin, None when there is none
\*   email, name git config user.email / user.name is set and non-empty
TrackedDirty(t) == \E i \in PathIds : t[i].kind # "clean" /\ (t[i].kind # "U" \/ t[i].staged)
SomethingStaged(t) == \E i \in PathIds : t[i].kind # "clean" /\ t[i].staged

\* git add . : every change goes to the index
StageAll(t) == [i \in PathIds |-> IF t[i].kind = "clean" THEN t[i] ELSE [t[i] EXCEPT !.staged = TRUE]]

\* git commit: what is staged becomes part of HEAD
CommitStaged(t) == [i \in PathIds |-> IF t[i].kind # "clean" /\ t[i].staged THEN CleanFile ELSE t[i]]

\* git commit creates a commit: something is staged and the identity is known
CanCommit(w) == SomethingStaged(w.tree) /\ w.email /\ w.name

GitCommit(w) == [w EXCEPT !.tree = CommitStaged(w.tree), !.localAhead = w.localAhead + 1]

\* git pull --rebase works: an upstream, no uncommitted tracked change, no conflict
CanPull(w) == w.origin = "good" /\ w.tracking /\ ~TrackedDirty(w.tree) /\ w.remote # "conflict"

GitPull(w) == [w EXCEPT !.remote = "same"]

\* git push works: an upstream, and the remote has nothing main lacks
CanPush(w) == w.origin = "good" /\ w.tracking /\ w.remote = "same"

GitPush(w) == [w EXCEPT !.localAhead = 0]

\* an entry of the log of commands: the command issued
Cmd(c, o) == c

\* a command did not run as the repository's state alone decides
Faulty(S) == \E o \in S : o \notin {"ok", "text", "empty", "unused"}

\* ------------------------------------------------------------------ check_identity
\* lines 136-137 and 139-140: input(), then git config --global <key> <answer>
\* with check=True. ans: the answer is text, empty, or EOFError; set: what
\* happens to the git config command. x: an exception was raised.
prompt_identity(w, key, ans, set) ==
  IF ans = "eof" THEN [w |-> w, cmds |-> <<Cmd("input", ans)>>, x |-> TRUE]
  ELSE IF set # "ok"
    THEN [w |-> w, cmds |-> <<Cmd("input", ans), Cmd("config --global", set)>>, x |-> TRUE]
  ELSE [w |-> [w EXCEPT ![key] = (ans = "text")],
        cmds |-> <<Cmd("input", ans), Cmd("config --global", set)>>, x |-> FALSE]

Answers == {"text", "empty", "eof"}
ConfigInp == {"ok", "err"}

\* check_identity (lines 127-143). i: what happens to each command and
\* prompt. Every exception ends at line 142.
check_identity(w, i) ==
  LET r_email == run_git(i.e, IF w.email THEN 0 ELSE 1,
                         IF w.email THEN <<"e", NL>> ELSE <<>>, FALSE)
      r_name == run_git(i.n, IF w.name THEN 0 ELSE 1,
                        IF w.name THEN <<"n", NL>> ELSE <<>>, FALSE)
      reads == <<Cmd("config", i.e), Cmd("config", i.n)>>
  IN IF Raised(r_email) THEN [w |-> w, cmds |-> <<Cmd("config", i.e)>>, x |-> "none"]
     ELSE IF Raised(r_name) THEN [w |-> w, cmds |-> reads, x |-> "none"]
     ELSE IF r_email.out # <<>> /\ r_name.out # <<>>
       THEN [w |-> w, cmds |-> reads, x |-> "none"]
     ELSE
       LET p1 == IF r_email.out = <<>> THEN prompt_identity(w, "email", i.ae, i.se)
                 ELSE [w |-> w, cmds |-> <<>>, x |-> FALSE]
           p2 == IF ~p1.x /\ r_name.out = <<>> THEN prompt_identity(p1.w, "name", i.an, i.sn)
                 ELSE [w |-> p1.w, cmds |-> <<>>, x |-> FALSE]
       IN [w |-> p2.w, cmds |-> reads \o p1.cmds \o p2.cmds, x |-> "none"]

\* ------------------------------------------------------------------ sync
\* IdleTime without lines 206-207
IdleTime_epoch(current_time, last_mtime) == current_time - last_mtime

\* lines 203-209: idle_time, with a last_mtime of 0 taken as current_time
IdleTime(current_time, last_mtime) ==
  current_time - (IF last_mtime = 0 THEN current_time ELSE last_mtime)

\* sync_decide with line 211 reading idle_time > self.idle_threshold
sync_decide_strict(files, is_ahead_, pending, current_time, threshold, t) ==
  IF files # <<>>
    THEN LET idle == IdleTime(current_time, get_latest_mtime(t, files))
         IN IF idle > threshold
              THEN [branch |-> "sync", pending |-> pending, idle |-> At(idle)]
              ELSE [branch |-> "wait",
                    pending |-> IF pending = NoTime THEN At(current_time) ELSE pending,
                    idle |-> At(idle)]
  ELSE IF is_ahead_
    THEN [branch |-> "retry", pending |-> pending, idle |-> NoTime]
  ELSE [branch |-> "clean", pending |-> NoTime, idle |-> NoTime]

\* lines 202-224, up to the calls of commit_and_push and pull_changes:
\* the arm taken, pending_changes_since afterwards, and idle_time
sync_decide(files, is_ahead_, pending, current_time, threshold, t) ==
  IF files # <<>>
    THEN LET idle == IdleTime(current_time, get_latest_mtime(t, files))
         IN IF idle >= threshold
              THEN [branch |-> "sync", pending |-> pending, idle |-> At(idle)]
              ELSE [branch |-> "wait",
                    pending |-> IF pending = NoTime THEN At(current_time) ELSE pending,
                    idle |-> At(idle)]
  ELSE IF is_ahead_
    THEN [branch |-> "retry", pending |-> pending, idle |-> NoTime]
  ELSE [branch |-> "clean", pending |-> NoTime, idle |-> NoTime]

\* pending_after_sync without line 214
pending_after_sync_kept(b, pending) == pending

\* pending_changes_since once commit_and_push has returned: line 214 after
\* the call at line 213, nothing after the call at line 221
pending_after_sync(b, pending) == IF b = "sync" THEN NoTime ELSE pending

\* ------------------------------------------------------------------ pull_changes, commit_and_push
\* pull_changes without its try/except
\* pull_changes that points origin at another URL before pulling
pull_changes_relinking(w, inp) ==
  LET r == run_git(inp, IF CanPull(w) THEN 0 ELSE 1, <<>>, FALSE)
  IN [w |-> [w EXCEPT !.origin = "bad"],
      cmds |-> <<Cmd("remote set-url", inp), Cmd("pull", inp)>>,
      x |-> "none"]

pull_changes_raising(w, inp) ==
  LET r == run_git(inp, IF CanPull(w) THEN 0 ELSE 1, <<>>, FALSE)
  IN [w |-> IF r.x = "ret" /\ inp = "ok" /\ CanPull(w) THEN GitPull(w) ELSE w,
      cmds |-> <<Cmd("pull", inp)>>,
      x |-> IF Raised(r) THEN r.x ELSE "none"]

\* pull_changes (lines 240-244): x is the exception that leaves it
pull_changes(w, inp) ==
  LET r == run_git(inp, IF CanPull(w) THEN 0 ELSE 1, <<>>, FALSE)
  IN [w |-> IF r.x = "ret" /\ inp = "ok" /\ CanPull(w) THEN GitPull(w) ELSE w,
      cmds |-> <<Cmd("pull", inp)>>,
      \* lines 243-244: except Exception: pass
      x |-> "none"]

\* commit_and_push with lines 232 and 235 exchanged: push, then pull
commit_and_push_push_first(w, i) ==
  LET r_add == run_git(i.add, 0, <<>>, TRUE)
      w1 == [w EXCEPT !.tree = StageAll(w.tree)]
      r_commit == run_git(i.commit, IF CanCommit(w1) THEN 0 ELSE 1, <<>>, FALSE)
      did == i.commit = "ok" /\ CanCommit(w1)
      w2 == IF did THEN GitCommit(w1) ELSE w1
      r_push == run_git(i.push, IF CanPush(w2) THEN 0 ELSE 1, <<>>, TRUE)
      w3 == IF Raised(r_push) THEN w2 ELSE GitPush(w2)
      p == pull_changes(w3, i.pull)
      c_add == <<Cmd("add", i.add)>>
      c_commit == c_add \o <<Cmd("commit", i.commit)>>
      c_push == c_commit \o <<Cmd("push", i.push)>>
  IN IF Raised(r_add)
       THEN [w |-> w, cmds |-> c_add, committed |-> FALSE, pushed |-> FALSE,
             failed |-> "add", x |-> "none"]
     ELSE IF Raised(r_commit)
       THEN [w |-> w1, cmds |-> c_commit, committed |-> FALSE, pushed |-> FALSE,
             failed |-> "commit", x |-> "none"]
     ELSE IF Raised(r_push)
       THEN [w |-> w2, cmds |-> c_push, committed |-> did, pushed |-> FALSE,
             failed |-> "push", x |-> "none"]
     ELSE [w |-> p.w, cmds |-> c_push \o p.cmds, committed |-> did, pushed |-> TRUE,
           failed |-> "none", x |-> "none"]

\* commit_and_push (lines 226-238). i: what happens to add, commit, pull and
\* push. Every exception ends at line 237, so none leaves it; failed is the
\* command whose exception line 238 logs as "Sync failed".
commit_and_push(w, i) ==
  LET r_add == run_git(i.add, 0, <<>>, TRUE)
      w1 == [w EXCEPT !.tree = StageAll(w.tree)]
      r_commit == run_git(i.commit, IF CanCommit(w1) THEN 0 ELSE 1, <<>>, FALSE)
      did == i.commit = "ok" /\ CanCommit(w1)
      w2 == IF did THEN GitCommit(w1) ELSE w1
      p == pull_changes(w2, i.pull)
      r_push == run_git(i.push, IF CanPush(p.w) THEN 0 ELSE 1, <<>>, TRUE)
      c_add == <<Cmd("add", i.add)>>
      c_commit == c_add \o <<Cmd("commit", i.commit)>>
      c_pull == c_commit \o p.cmds
      c_push == c_pull \o <<Cmd("push", i.push)>>
  IN IF Raised(r_add)
       THEN [w |-> w, cmds |-> c_add, committed |-> FALSE, pushed |-> FALSE,
             failed |-> "add", x |-> "none"]
     ELSE IF Raised(r_commit)
       THEN [w |-> w1, cmds |-> c_commit, committed |-> FALSE, pushed |-> FALSE,
             failed |-> "commit", x |-> "none"]
     ELSE IF p.x # "none"
       THEN [w |-> p.w, cmds |-> c_pull, committed |-> did, pushed |-> FALSE,
             failed |-> "pull", x |-> "none"]
     ELSE IF Raised(r_push)
       THEN [w |-> p.w, cmds |-> c_push, committed |-> did, pushed |-> FALSE,
             failed |-> "push", x |-> "none"]
     ELSE [w |-> GitPush(p.w), cmds |-> c_push, committed |-> did, pushed |-> TRUE,
           failed |-> "none", x |-> "none"]

\* ------------------------------------------------------------------ state
\* commit_and_push left by KeyboardInterrupt while the command at is in
\* flight: neither line 54 nor line 237 catches it (it is no Exception), so
\* the commands before at have run and at and those after it have not.
\* reached: commit_and_push gets as far as at.
commit_and_push_interrupted(w, i, at) ==
  LET r_add == run_git(i.add, 0, <<>>, TRUE)
      w1 == [w EXCEPT !.tree = StageAll(w.tree)]
      r_commit == run_git(i.commit, IF CanCommit(w1) THEN 0 ELSE 1, <<>>, FALSE)
      did == i.commit = "ok" /\ CanCommit(w1)
      w2 == IF did THEN GitCommit(w1) ELSE w1
      p == pull_changes(w2, i.pull)
  IN CASE at = "add" ->
            [w |-> w, cmds |-> <<"add">>, committed |-> FALSE, reached |-> TRUE]
       [] at = "commit" ->
            [w |-> w1, cmds |-> <<"add", "commit">>, committed |-> FALSE,
             reached |-> ~Raised(r_add)]
       [] at = "pull" ->
            [w |-> w2, cmds |-> <<"add", "commit", "pull">>, committed |-> did,
             reached |-> ~Raised(r_add) /\ ~Raised(r_commit)]
       [] OTHER ->
            [w |-> p.w, cmds |-> <<"add", "commit", "pull", "push">>, committed |-> did,
             reached |-> ~Raised(r_add) /\ ~Raised(r_commit)]

\* ------------------------------------------------------------------ repair_connection
\* what origin can be: no such remote, a repository that answers, one that does not
Urls == {"good", "bad"}

\* git push --set-upstream origin main works: origin answers and the remote
\* has nothing main lacks
CanPushUpstream(w) == w.origin = "good" /\ w.remote = "same"

GitPushUpstream(w) == [w EXCEPT !.localAhead = 0, !.tracking = TRUE]

\* git pull origin main --rebase --allow-unrelated-histories works: origin
\* answers, no uncommitted tracked change, no conflict
CanPullOrigin(w) == w.origin = "good" /\ ~TrackedDirty(w.tree) /\ w.remote # "conflict"

Rc(works) == IF works THEN 0 ELSE 1

\* lines 162-164: the repository after git remote set-url origin <remote_url>,
\* which changes nothing when there is no remote named origin
set_url(w, remote_url_, inp) ==
  IF remote_url_ # None /\ inp = "ok" /\ w.origin # "none"
    THEN [w EXCEPT !.origin = remote_url_] ELSE w

\* repair_connection whose fallback pulls and does not push again
repair_connection_no_retry(w, remote_url_, i) ==
  LET do_set == remote_url_ # None
      r_set == run_git(i.seturl, Rc(w.origin # "none"), <<>>, FALSE)
      w1 == set_url(w, remote_url_, i.seturl)
      r_push1 == run_git(i.push1, Rc(CanPushUpstream(w1)), <<>>, TRUE)
      r_pull == run_git(i.pull, Rc(CanPullOrigin(w1)), <<>>, FALSE)
      w2 == IF i.pull = "ok" /\ CanPullOrigin(w1) THEN GitPull(w1) ELSE w1
      c_cfg == <<Cmd("config --global", i.cfg), Cmd("config --global", i.cfg),
                 Cmd("config --global", i.cfg), Cmd("config --global", i.cfg)>>
      c_set == c_cfg \o (IF do_set THEN <<Cmd("remote set-url", i.seturl)>> ELSE <<>>)
      c_push1 == c_set \o <<Cmd("push", i.push1)>>
      c_pull == c_push1 \o <<Cmd("pull", i.pull)>>
  IN IF i.cfg = "err"
       THEN [w |-> w, cmds |-> <<Cmd("config --global", i.cfg)>>, final |-> "none", x |-> "exc"]
     ELSE IF do_set /\ Raised(r_set)
       THEN [w |-> w, cmds |-> c_set, final |-> "none", x |-> r_set.x]
     ELSE IF ~Raised(r_push1)
       THEN [w |-> GitPushUpstream(w1), cmds |-> c_push1, final |-> "success", x |-> "none"]
     ELSE [w |-> IF Raised(r_pull) THEN w1 ELSE w2, cmds |-> c_pull,
           final |-> "failure", x |-> "none"]

\* repair_connection that pushes once more when the retry of line 179 fails
repair_connection_third_push(w, remote_url_, i) ==
  LET do_set == remote_url_ # None
      r_set == run_git(i.seturl, Rc(w.origin # "none"), <<>>, FALSE)
      w1 == set_url(w, remote_url_, i.seturl)
      r_push1 == run_git(i.push1, Rc(CanPushUpstream(w1)), <<>>, TRUE)
      r_pull == run_git(i.pull, Rc(CanPullOrigin(w1)), <<>>, FALSE)
      w2 == IF i.pull = "ok" /\ CanPullOrigin(w1) THEN GitPull(w1) ELSE w1
      r_push2 == run_git(i.push2, Rc(CanPushUpstream(w2)), <<>>, TRUE)
      c_cfg == <<Cmd("config --global", i.cfg), Cmd("config --global", i.cfg),
                 Cmd("config --global", i.cfg), Cmd("config --global", i.cfg)>>
      c_set == c_cfg \o (IF do_set THEN <<Cmd("remote set-url", i.seturl)>> ELSE <<>>)
      c_push1 == c_set \o <<Cmd("push", i.push1)>>
      c_pull == c_push1 \o <<Cmd("pull", i.pull)>>
      c_push2 == c_pull \o <<Cmd("push", i.push2)>>
  IN IF i.cfg = "err"
       THEN [w |-> w, cmds |-> <<Cmd("config --global", i.cfg)>>, final |-> "none", x |-> "exc"]
     ELSE IF do_set /\ Raised(r_set)
       THEN [w |-> w, cmds |-> c_set, final |-> "none", x |-> r_set.x]
     ELSE IF ~Raised(r_push1)
       THEN [w |-> GitPushUpstream(w1), cmds |-> c_push1, final |-> "success", x |-> "none"]
     ELSE IF Raised(r_pull)
       THEN [w |-> w1, cmds |-> c_pull, final |-> "failure", x |-> "none"]
     ELSE IF ~Raised(r_push2)
       THEN [w |-> GitPushUpstream(w2), cmds |-> c_push2, final |-> "success", x |-> "none"]
     ELSE [w |-> w2, cmds |-> c_push2 \o <<Cmd("push", i.push2)>>,
           final |-> "failure", x |-> "none"]

\* repair_connection (lines 145-183). i: what happens to the git config
\* calls of lines 151-160, to remote set-url, to the first push, to the pull
\* and to the retried push. Lines 151-164 are outside every try: x is what
\* they raise. final: how the last push attempted ended.
repair_connection(w, remote_url_, i) ==
  LET do_set == remote_url_ # None
      r_set == run_git(i.seturl, Rc(w.origin # "none"), <<>>, FALSE)
      w1 == set_url(w, remote_url_, i.seturl)
      r_push1 == run_git(i.push1, Rc(CanPushUpstream(w1)), <<>>, TRUE)
      r_pull == run_git(i.pull, Rc(CanPullOrigin(w1)), <<>>, FALSE)
      w2 == IF i.pull = "ok" /\ CanPullOrigin(w1) THEN GitPull(w1) ELSE w1
      r_push2 == run_git(i.push2, Rc(CanPushUpstream(w2)), <<>>, TRUE)
      c_cfg == <<Cmd("config --global", i.cfg), Cmd("config --global", i.cfg),
                 Cmd("config --global", i.cfg), Cmd("config --global", i.cfg)>>
      c_set == c_cfg \o (IF do_set THEN <<Cmd("remote set-url", i.seturl)>> ELSE <<>>)
      c_push1 == c_set \o <<Cmd("push", i.push1)>>
      c_pull == c_push1 \o <<Cmd("pull", i.pull)>>
      c_push2 == c_pull \o <<Cmd("push", i.push2)>>
  IN IF i.cfg = "err"
       THEN [w |-> w, cmds |-> <<Cmd("config --global", i.cfg)>>, final |-> "none", x |-> "exc"]
     ELSE IF do_set /\ Raised(r_set)
       THEN [w |-> w, cmds |-> c_set, final |-> "none", x |-> r_set.x]
     ELSE IF ~Raised(r_push1)
       THEN [w |-> GitPushUpstream(w1), cmds |-> c_push1, final |-> "success", x |-> "none"]
     ELSE IF Raised(r_pull)
       THEN [w |-> w1, cmds |-> c_pull, final |-> "failure", x |-> "none"]
     ELSE IF ~Raised(r_push2)
       THEN [w |-> GitPushUpstream(w2), cmds |-> c_push2, final |-> "success", x |-> "none"]
     ELSE [w |-> w2, cmds |-> c_push2, final |-> "failure", x |-> "none"]

\* ------------------------------------------------------------------ initialize_repo
\* a directory that is no repository: every git command of a poll fails in
\* it, which sync() cannot tell from a clean tree with no origin/main
NoRepository(w) ==
  [w EXCEPT !.tree = [p \in PathIds |-> CleanFile], !.origin = "none",
            !.tracking = FALSE, !.localAhead = 0]

\* the initial commit is created: the identity is known (.gitignore is
\* always there to be committed)
CanCommitInitial(w) == w.email /\ w.name

\* git push -u origin main works: main has a commit, origin answers and the
\* remote has nothing main lacks
CanPushInitial(w) == w.localAhead >= 1 /\ CanPushUpstream(w)

\* initialize_repo (lines 62-93). i: what happens to git init, branch -M,
\* the writing of .gitignore, remote add, add, commit and push. Every
\* exception but the push's ends at line 92; push: how line 85 ended.
initialize_repo(w, remote_url_, i) ==
  LET r_init == run_git(i.init, 0, <<>>, TRUE)
      r_branch == run_git(i.branch, 0, <<>>, FALSE)
      do_remote == remote_url_ # None
      r_remote == run_git(i.remote, Rc(w.origin = "none"), <<>>, FALSE)
      w1 == IF do_remote /\ i.remote = "ok" /\ w.origin = "none"
              THEN [w EXCEPT !.origin = remote_url_] ELSE w
      r_add == run_git(i.add, 0, <<>>, TRUE)
      w2 == [w1 EXCEPT !.tree = StageAll(w1.tree)]
      r_commit == run_git(i.commit, Rc(CanCommitInitial(w2)), <<>>, FALSE)
      w3 == IF i.commit = "ok" /\ CanCommitInitial(w2) THEN GitCommit(w2) ELSE w2
      r_push == run_git(i.push, Rc(CanPushInitial(w3)), <<>>, TRUE)
      c_init == <<Cmd("init", i.init)>>
      c_branch == c_init \o <<Cmd("branch", i.branch)>>
      c_remote == c_branch \o (IF do_remote THEN <<Cmd("remote add", i.remote)>> ELSE <<>>)
      c_add == c_remote \o <<Cmd("add", i.add)>>
      c_commit == c_add \o <<Cmd("commit", i.commit)>>
      c_push == c_commit \o <<Cmd("push", i.push)>>
  IN IF Raised(r_init)
       THEN [w |-> NoRepository(w), cmds |-> c_init, push |-> "none", x |-> "none"]
     ELSE IF Raised(r_branch) \/ i.ignore = "err"
       THEN [w |-> w, cmds |-> c_branch, push |-> "none", x |-> "none"]
     ELSE IF do_remote /\ Raised(r_remote)
       THEN [w |-> w, cmds |-> c_remote, push |-> "none", x |-> "none"]
     ELSE IF Raised(r_add)
       THEN [w |-> w1, cmds |-> c_add, push |-> "none", x |-> "none"]
     ELSE IF Raised(r_commit)
       THEN [w |-> w2, cmds |-> c_commit, push |-> "none", x |-> "none"]
     ELSE IF Raised(r_push)
       THEN [w |-> w3, cmds |-> c_push, push |-> "failed", x |-> "none"]
     ELSE [w |-> GitPushUpstream(w3), cmds |-> c_push, push |-> "ok", x |-> "none"]

VARIABLES
  pc,                      \* where main() is
  idle_threshold,          \* GitSync.idle_threshold
  remote_url,              \* GitSync.remote_url
  pending_changes_since,   \* GitSync.pending_changes_since
  modified_files,          \* sync(): modified_files
  ahead,                   \* sync(): ahead
  branch,                  \* sync(): which arm of lines 202-224 was taken
  idle_time,               \* sync(): idle_time, NoTime when not computed
  now,                     \* time.time()
  tree, localAhead, tracking, remote, origin, email, name,   \* the record w
  cmds,                    \* commands issued by the sync() call
  pendingBefore,           \* pending_changes_since when the poll began
  pushed,                  \* the poll's push succeeded
  committed,               \* the poll's commit created a commit
  sync_failed,             \* the command whose failure line 238 logged, else "none"
  faulty,                  \* a command of the poll failed for a reason outside the model
  stoppedAt,               \* where main() was when KeyboardInterrupt came, else None
  runs,                    \* the repair_connection runs made in a row, the last two
  args,                    \* main(): args, the command line as argparse read it
  config,                  \* main(): config, what load_config() returned
  init_push,               \* how the push of initialize_repo ended, "none" when not run
  prompted,                \* polls in which check_identity called input(): never, once, again
  waitingSince             \* time of the first of the waiting polls now in a row, else NoTime

vars == <<pc, idle_threshold, remote_url, pending_changes_since, modified_files,
          ahead, branch, idle_time, now, tree, localAhead, tracking, remote, origin,
          email, name, cmds, pendingBefore, pushed, committed, sync_failed,
          faulty, stoppedAt, runs, args, config, init_push, prompted, waitingSince>>

\* what no poll changes
progVars == <<idle_threshold, remote_url, runs, args, config, init_push>>
localVars == <<modified_files, ahead, branch, idle_time>>
repoVars == <<tree, localAhead, tracking, remote, origin, email, name>>

World == [tree |-> tree, localAhead |-> localAhead, tracking |-> tracking,
          remote |-> remote, origin |-> origin, email |-> email, name |-> name]

SetWorld(w) ==
  /\ tree' = w.tree
  /\ localAhead' = w.localAhead
  /\ tracking' = w.tracking
  /\ remote' = w.remote
  /\ origin' = w.origin
  /\ email' = w.email
  /\ name' = w.name

\* ------------------------------------------------------------------ one poll: sync()
\* x when it is needed, d when the code does not get that far
Dom(needed, S, d) == IF needed THEN S ELSE {d}

\* line 197. git config reads a local file: it answers or cannot be started.
CheckIdentity ==
  /\ pc = "check_identity"
  /\ \E e \in ConfigInp :
     \E n \in Dom(e = "ok", ConfigInp, "ok") :
     \E ae \in Dom(e = "ok" /\ n = "ok" /\ ~email, Answers, "unused") :
     \E se \in Dom(ae \in {"text", "empty"}, Inp, "unused") :
     \E an \in Dom(e = "ok" /\ n = "ok" /\ ~name /\ (email \/ se = "ok"),
                   Answers, "unused") :
     \E sn \in Dom(an \in {"text", "empty"}, Inp, "unused") :
       LET c == check_identity(World, [e |-> e, n |-> n, ae |-> ae, se |-> se,
                                       an |-> an, sn |-> sn])
       IN /\ SetWorld(c.w)
          /\ cmds' = cmds \o c.cmds
          /\ faulty' = (faulty \/ Faulty({e, n, ae, se, an, sn}))
          /\ prompted' = IF \E k \in 1..Len(c.cmds) : c.cmds[k] = "input"
                            THEN (IF prompted = "never" THEN "once" ELSE "again")
                            ELSE prompted
          /\ pc' = IF c.x = "none" THEN "observe" ELSE "crashed"
  /\ UNCHANGED <<progVars, pending_changes_since, localVars, now, pendingBefore, pushed,
                 committed, sync_failed, stoppedAt, waitingSince>>

\* lines 199-223: get_modified_files(), is_ahead() and the arm taken
Observe ==
  /\ pc = "observe"
  /\ \E s \in Inp, r \in Inp :
       LET files == get_modified_files(run_git(s, 0, StatusOutput(tree), TRUE))
           is_ahead_ == is_ahead(run_git(r, IF tracking THEN 0 ELSE 1,
                           IF tracking THEN CountText(localAhead) \o <<NL>> ELSE <<>>,
                           FALSE))
           d == sync_decide(files, is_ahead_, pending_changes_since, now,
                            idle_threshold, tree)
       IN /\ modified_files' = files
          /\ ahead' = is_ahead_
          /\ branch' = d.branch
          /\ pending_changes_since' = d.pending
          /\ idle_time' = d.idle
          /\ waitingSince' = IF d.branch # "wait" THEN NoTime
                                ELSE IF waitingSince = NoTime THEN At(now)
                                ELSE waitingSince
          /\ pc' = CASE d.branch \in {"sync", "retry"} -> "commit_and_push"
                     [] d.branch = "wait" -> "polled"
                     [] OTHER -> "pull_changes"
          /\ cmds' = cmds \o <<Cmd("status", s), Cmd("rev-list", r)>>
          /\ faulty' = (faulty \/ Faulty({s, r}))
  /\ UNCHANGED <<progVars, now, repoVars, pendingBefore, pushed, committed, sync_failed,
                 stoppedAt, prompted>>

\* lines 213-214 and line 221
CommitAndPush ==
  /\ pc = "commit_and_push"
  /\ \E a \in Inp :
     \E c \in Dom(a = "ok", Inp, "unused") :
     \E pl \in Dom(c \in {"ok", "fail"}, Inp, "unused") :
     \E ps \in Dom(c \in {"ok", "fail"}, Inp, "unused") :
       LET r == commit_and_push(World, [add |-> a, commit |-> c, pull |-> pl, push |-> ps])
       IN /\ SetWorld(r.w)
          /\ cmds' = cmds \o r.cmds
          /\ pushed' = r.pushed
          /\ committed' = r.committed
          /\ sync_failed' = r.failed
          /\ faulty' = (faulty \/ Faulty({a, c, pl, ps}))
          /\ IF r.x = "none"
               THEN /\ pending_changes_since' =
                         pending_after_sync(branch, pending_changes_since)
                    /\ pc' = "polled"
               ELSE /\ UNCHANGED pending_changes_since
                    /\ pc' = "crashed"
  /\ UNCHANGED <<progVars, localVars, now, pendingBefore, stoppedAt, prompted,
                 waitingSince>>

\* line 224
PullChanges ==
  /\ pc = "pull_changes"
  /\ \E pl \in Inp :
       LET p == pull_changes(World, pl)
       IN /\ SetWorld(p.w)
          /\ cmds' = cmds \o p.cmds
          /\ faulty' = (faulty \/ Faulty({pl}))
          /\ pc' = IF p.x = "none" THEN "polled" ELSE "crashed"
  /\ UNCHANGED <<progVars, pending_changes_since, localVars, now, pendingBefore, pushed,
                 committed, sync_failed, stoppedAt, prompted, waitingSince>>

\* ------------------------------------------------------------------ main's loop
PollPcs == {"check_identity", "observe", "commit_and_push", "pull_changes"}

\* the locals of a sync() call that has not begun
FreshPoll ==
  /\ modified_files' = <<>>
  /\ ahead' = FALSE
  /\ branch' = "none"
  /\ idle_time' = NoTime
  /\ cmds' = <<>>
  /\ pushed' = FALSE
  /\ committed' = FALSE
  /\ sync_failed' = "none"
  /\ faulty' = FALSE
  /\ pendingBefore' = pending_changes_since

\* line 355: time.sleep(syncer.interval), then sync() again
Sleep ==
  /\ pc = "polled"
  /\ now < MaxTime
  /\ now' = now + 1
  /\ pc' = "check_identity"
  /\ FreshPoll
  /\ UNCHANGED <<progVars, pending_changes_since, repoVars, stoppedAt, prompted,
                 waitingSince>>

\* lines 356-357: KeyboardInterrupt, raised wherever main() is; the process
\* ends and its memory with it, what it did to the repository stays
Interrupt ==
  /\ pc \in PollPcs \cup {"polled"}
  /\ stoppedAt' = pc
  /\ pc' = "exited"
  /\ pending_changes_since' = NoTime
  /\ modified_files' = <<>>
  /\ ahead' = FALSE
  /\ branch' = "none"
  /\ idle_time' = NoTime
  /\ pendingBefore' = NoTime
  /\ waitingSince' = NoTime
  /\ UNCHANGED <<progVars, now, repoVars, cmds, pushed, committed, sync_failed, faulty,
                 prompted>>

\* lines 356-357: KeyboardInterrupt raised inside commit_and_push, while one
\* of its commands is in flight
InterruptCommand ==
  /\ pc = "commit_and_push"
  /\ \E at \in {"add", "commit", "pull", "push"} :
     \E a \in Dom(at # "add", Inp, "unused") :
     \E c \in Dom(at \in {"pull", "push"}, Inp, "unused") :
     \E pl \in Dom(at = "push", Inp, "unused") :
       LET r == commit_and_push_interrupted(World, [add |-> a, commit |-> c, pull |-> pl], at)
       IN /\ r.reached
          /\ SetWorld(r.w)
          /\ cmds' = cmds \o r.cmds
          /\ committed' = r.committed
          /\ faulty' = (faulty \/ Faulty({a, c, pl}))
  /\ stoppedAt' = pc
  /\ pc' = "exited"
  /\ pending_changes_since' = NoTime
  /\ modified_files' = <<>>
  /\ ahead' = FALSE
  /\ branch' = "none"
  /\ idle_time' = NoTime
  /\ pendingBefore' = NoTime
  /\ waitingSince' = NoTime
  /\ UNCHANGED <<progVars, now, pushed, sync_failed, prompted>>

\* ------------------------------------------------------------------ the operator and the remote
\* what happens to the vault while the daemon sleeps
BetweenPolls == pc = "check_identity"

EnvFrame == UNCHANGED <<pc, progVars, pending_changes_since, localVars, now, prompted,
                        waitingSince,
                        localAhead, tracking, origin, email, name, cmds, pendingBefore,
                        pushed, committed, sync_failed, faulty, stoppedAt>>

\* a file is written: a tracked one is modified, a new one appears
EditFile ==
  /\ BetweenPolls
  /\ localAhead < MaxAhead
  /\ \E i \in PathIds, k \in {"M", "U"}, m \in {now, now + 1} :
       /\ tree[i].kind \in {"clean", k}
       /\ tree' = [tree EXCEPT ![i] = [kind |-> k, staged |-> tree[i].staged, mtime |-> m]]
  /\ UNCHANGED remote
  /\ EnvFrame

\* a tracked file is removed from disk
DeleteFile ==
  /\ BetweenPolls
  /\ localAhead < MaxAhead
  /\ \E i \in PathIds :
       /\ tree[i].kind \in {"clean", "M"}
       /\ tree' = [tree EXCEPT ![i] = [kind |-> "D", staged |-> tree[i].staged, mtime |-> 0]]
  /\ UNCHANGED remote
  /\ EnvFrame

\* an unstaged change is undone
RevertFile ==
  /\ BetweenPolls
  /\ \E i \in PathIds :
       /\ tree[i].kind # "clean" /\ ~tree[i].staged
       /\ tree' = [tree EXCEPT ![i] = CleanFile]
  /\ UNCHANGED remote
  /\ EnvFrame

\* another device pushes to the remote
RemoteChange ==
  /\ BetweenPolls
  /\ remote = "same"
  /\ remote' = "ahead"
  /\ UNCHANGED tree
  /\ EnvFrame

\* ------------------------------------------------------------------ the daemon
Init ==
  /\ pc = "check_identity"
  /\ idle_threshold \in {0, MaxThreshold}
  /\ remote_url = None
  /\ pending_changes_since = NoTime
  /\ modified_files = <<>>
  /\ ahead = FALSE
  /\ branch = "none"
  /\ idle_time = NoTime
  /\ now = 1
  /\ tree = [i \in PathIds |-> CleanFile]
  /\ localAhead \in {0, 1}
  /\ tracking \in BOOLEAN
  /\ (~tracking => localAhead = 1)
  /\ remote = "same"
  /\ origin = "good"
  /\ email = TRUE
  /\ name = TRUE
  /\ cmds = <<>>
  /\ pendingBefore = NoTime
  /\ pushed = FALSE
  /\ committed = FALSE
  /\ sync_failed = "none"
  /\ faulty = FALSE
  /\ stoppedAt = None
  /\ runs = <<>>
  /\ args = [idle_threshold |-> NoTime]
  /\ config = [idle_threshold |-> At(idle_threshold)]
  /\ init_push = "none"
  /\ prompted = "never"
  /\ waitingSince = NoTime

Next ==
  \/ CheckIdentity \/ Observe \/ CommitAndPush \/ PullChanges
  \/ Sleep \/ Interrupt \/ InterruptCommand
  \/ EditFile \/ DeleteFile \/ RevertFile \/ RemoteChange

Spec == Init /\ [][Next]_vars

\* ------------------------------------------------------------------ python sync.py --repair
\* what is not part of a --repair run
RepairFrame == UNCHANGED <<idle_threshold, pending_changes_since, localVars, now,
                           args, config, init_push, prompted, waitingSince,
                           email, name, pendingBefore, pushed, committed,
                           sync_failed, stoppedAt>>

\* how the remote answered a run: the one outcome of the network commands
\* it issued, "mixed" when they differ
Net(i) ==
  LET used == {i.push1, i.pull, i.push2} \ {"unused"}
  IN IF used = {} THEN "none"
     ELSE IF Cardinality(used) = 1 THEN CHOOSE o \in used : TRUE
     ELSE "mixed"

\* how the push of line 169 ended and why: rejected because the remote has
\* history main lacks, or failed for another reason (no origin, origin not
\* answering, the command failing or not running)
FirstPush(w1, inp, reach) ==
  IF ~reach THEN "none"
  ELSE IF inp = "ok" /\ CanPushUpstream(w1) THEN "ok"
  ELSE IF inp = "ok" /\ w1.origin = "good" /\ w1.remote # "same" THEN "diverged"
  ELSE "other"

LastTwo(q) == IF Len(q) > 2 THEN Tail(q) ELSE q

\* lines 326-328: repair_connection(), then return
Repair ==
  /\ pc = "repair"
  /\ \E cfg \in ConfigInp :
     \E su \in Dom(cfg = "ok" /\ remote_url # None, ConfigInp, "unused") :
       LET reach == cfg = "ok" /\ su # "err"
           w1 == set_url(World, remote_url, su)
       IN \E p1 \in Dom(reach, Inp, "unused") :
            LET fails1 == reach /\ (p1 # "ok" \/ ~CanPushUpstream(w1))
            IN \E pl \in Dom(fails1, Inp, "unused") :
               \E p2 \in Dom(fails1 /\ pl # "err", Inp, "unused") :
                 LET i == [cfg |-> cfg, seturl |-> su, push1 |-> p1, pull |-> pl, push2 |-> p2]
                     r == repair_connection(World, remote_url, i)
                 IN /\ SetWorld(r.w)
                    /\ cmds' = r.cmds
                    /\ faulty' = Faulty({cfg, su, p1, pl, p2})
                    /\ pc' = IF r.x = "none" THEN "repaired" ELSE "crashed"
                    /\ runs' = LastTwo(Append(runs,
                                 [url |-> remote_url, cfg |-> cfg, seturl |-> su,
                                  net |-> Net(i), origin |-> r.w.origin, final |-> r.final,
                                  first |-> FirstPush(w1, p1, reach)]))
  /\ UNCHANGED remote_url
  /\ RepairFrame

\* the command is given again, with the configuration file as it then is
Relaunch ==
  /\ pc \in {"repaired", "crashed"}
  /\ pc' = "repair"
  /\ remote_url' \in {None} \cup Urls
  /\ cmds' = <<>>
  /\ faulty' = FALSE
  /\ UNCHANGED <<repoVars, runs>>
  /\ RepairFrame

\* between two runs a tracked file is written or restored: the runs are no
\* longer in a row
RepairEdit ==
  /\ pc \in {"repaired", "crashed"}
  /\ tree' = [tree EXCEPT ![1] = IF tree[1].kind = "clean"
                                    THEN [kind |-> "M", staged |-> FALSE, mtime |-> now]
                                    ELSE CleanFile]
  /\ runs' = <<>>
  /\ UNCHANGED <<pc, remote_url, localAhead, tracking, remote, origin, cmds, faulty>>
  /\ RepairFrame

\* between two runs another device pushes to the remote
RepairRemoteChange ==
  /\ pc \in {"repaired", "crashed"}
  /\ remote' \in {"ahead", "conflict"} \ {remote}
  /\ runs' = <<>>
  /\ UNCHANGED <<pc, remote_url, tree, localAhead, tracking, origin, cmds, faulty>>
  /\ RepairFrame

InitRepair ==
  /\ pc = "repair"
  /\ idle_threshold = MaxThreshold
  /\ remote_url \in {None} \cup Urls
  /\ pending_changes_since = NoTime
  /\ modified_files = <<>>
  /\ ahead = FALSE
  /\ branch = "none"
  /\ idle_time = NoTime
  /\ now = 1
  /\ tree = [i \in PathIds |-> CleanFile]
  /\ localAhead = 1
  /\ tracking \in BOOLEAN
  /\ remote \in {"same", "ahead", "conflict"}
  /\ origin \in {"none"} \cup Urls
  /\ (origin = "none" => ~tracking)
  /\ email = TRUE
  /\ name = TRUE
  /\ cmds = <<>>
  /\ pendingBefore = NoTime
  /\ pushed = FALSE
  /\ committed = FALSE
  /\ sync_failed = "none"
  /\ faulty = FALSE
  /\ stoppedAt = None
  /\ runs = <<>>
  /\ args = [idle_threshold |-> NoTime]
  /\ config = [idle_threshold |-> At(idle_threshold)]
  /\ init_push = "none"
  /\ prompted = "never"
  /\ waitingSince = NoTime

NextRepair == Repair \/ Relaunch \/ RepairEdit \/ RepairRemoteChange

SpecRepair == InitRepair /\ [][NextRepair]_vars

\* ------------------------------------------------------------------ a first launch
\* line 334: syncer.check_identity() before the repository is initialized
SetupIdentity ==
  /\ pc = "setup_identity"
  /\ \E e \in ConfigInp :
     \E n \in Dom(e = "ok", ConfigInp, "ok") :
     \E ae \in Dom(e = "ok" /\ n = "ok" /\ ~email, Answers, "unused") :
     \E se \in Dom(ae \in {"text", "empty"}, ConfigInp, "unused") :
     \E an \in Dom(e = "ok" /\ n = "ok" /\ ~name /\ (email \/ se = "ok"),
                   Answers, "unused") :
     \E sn \in Dom(an \in {"text", "empty"}, ConfigInp, "unused") :
       LET c == check_identity(World, [e |-> e, n |-> n, ae |-> ae, se |-> se,
                                       an |-> an, sn |-> sn])
       IN /\ SetWorld(c.w)
          /\ cmds' = c.cmds
          /\ faulty' = Faulty({e, n, ae, se, an, sn})
  /\ pc' = "initialize_repo"
  /\ UNCHANGED <<progVars, prompted>>
  /\ UNCHANGED <<pending_changes_since, localVars, now, pendingBefore,
                 pushed, committed, sync_failed, stoppedAt, waitingSince>>

\* line 338: syncer.initialize_repo()
InitializeRepo ==
  /\ pc = "initialize_repo"
  /\ \E gi \in Inp :
     \E br \in Dom(gi = "ok", ConfigInp, "unused") :
     \E ig \in Dom(br = "ok", ConfigInp, "unused") :
     \E ra \in Dom(ig = "ok" /\ remote_url # None, ConfigInp, "unused") :
     \E a \in Dom(ig = "ok" /\ ra # "err", Inp, "unused") :
     \E c \in Dom(a = "ok", Inp, "unused") :
     \E ps \in Dom(c \in {"ok", "fail"}, Inp, "unused") :
       LET r == initialize_repo(World, remote_url,
                  [init |-> gi, branch |-> br, ignore |-> ig, remote |-> ra,
                   add |-> a, commit |-> c, push |-> ps])
       IN /\ SetWorld(r.w)
          /\ cmds' = r.cmds
          /\ faulty' = Faulty({gi, br, ig, ra, a, c, ps})
          /\ init_push' = r.push
          /\ pc' = IF r.x = "none" THEN "initialized" ELSE "crashed"
  /\ UNCHANGED <<idle_threshold, remote_url, runs, args, config, prompted>>
  /\ UNCHANGED <<pending_changes_since, localVars, now, pendingBefore,
                 pushed, committed, sync_failed, stoppedAt, waitingSince>>

\* lines 352-354: the loop is entered and sync() called for the first time
StartLoop ==
  /\ pc = "initialized"
  /\ pc' = "check_identity"
  /\ FreshPoll
  /\ UNCHANGED <<progVars, pending_changes_since, now, repoVars, stoppedAt, prompted,
                 waitingSince>>

\* between polls another device pushes to the remote, history that rebases
\* onto main cleanly or that conflicts with it
RemoteDiverges ==
  /\ BetweenPolls
  /\ tracking
  /\ remote = "same"
  /\ remote' \in {"ahead", "conflict"}
  /\ UNCHANGED tree
  /\ EnvFrame

\* the vault is no repository yet and the operator answers y at line 332
InitStart ==
  /\ pc = "setup_identity"
  /\ idle_threshold \in {0, MaxThreshold}
  /\ remote_url \in {None} \cup Urls
  /\ pending_changes_since = NoTime
  /\ modified_files = <<>>
  /\ ahead = FALSE
  /\ branch = "none"
  /\ idle_time = NoTime
  /\ now = 1
  /\ tree \in {[p \in PathIds |-> CleanFile],
               [p \in PathIds |-> IF p = 1 THEN [kind |-> "U", staged |-> FALSE, mtime |-> 1]
                                  ELSE CleanFile]}
  /\ localAhead = 0
  /\ tracking = FALSE
  /\ remote \in {"same", "ahead", "conflict"}
  /\ origin = "none"
  /\ email \in BOOLEAN
  /\ name \in BOOLEAN
  /\ cmds = <<>>
  /\ pendingBefore = NoTime
  /\ pushed = FALSE
  /\ committed = FALSE
  /\ sync_failed = "none"
  /\ faulty = FALSE
  /\ stoppedAt = None
  /\ runs = <<>>
  /\ args = [idle_threshold |-> NoTime]
  /\ config = [idle_threshold |-> At(idle_threshold)]
  /\ init_push = "none"
  /\ prompted = "never"
  /\ waitingSince = NoTime

NextStart ==
  \/ SetupIdentity \/ InitializeRepo \/ StartLoop
  \/ CheckIdentity \/ Observe \/ CommitAndPush \/ PullChanges \/ Sleep
  \/ RemoteDiverges

SpecStart == InitStart /\ [][NextStart]_vars

\* ------------------------------------------------------------------ a vault left alone
\* line 355 when nobody touches the vault any more: polls go on for ever; the
\* clock is followed up to MaxTime, when every file still on disk has been
\* idle for idle_threshold or longer
Tick ==
  /\ pc = "polled"
  /\ now' = IF now < MaxTime THEN now + 1 ELSE now
  /\ pc' = "check_identity"
  /\ FreshPoll
  /\ UNCHANGED <<progVars, pending_changes_since, repoVars, stoppedAt, prompted,
                 waitingSince>>

\* a file as the last change to it left it: written at time 1, or deleted
SettledFiles ==
  {CleanFile} \cup {[kind |-> k, staged |-> FALSE, mtime |-> 1] : k \in {"M", "U"}}
              \cup {[kind |-> "D", staged |-> FALSE, mtime |-> 0]}

InitSettle ==
  /\ pc = "check_identity"
  /\ idle_threshold \in {0, MaxThreshold}
  /\ remote_url = None
  /\ pending_changes_since = NoTime
  /\ modified_files = <<>>
  /\ ahead = FALSE
  /\ branch = "none"
  /\ idle_time = NoTime
  /\ now = 1
  /\ tree \in [PathIds -> SettledFiles]
  /\ IsDirty(tree)
  /\ localAhead \in {0, 1}
  /\ tracking = TRUE
  /\ remote = "same"
  /\ origin = "good"
  /\ email = TRUE
  /\ name = TRUE
  /\ cmds = <<>>
  /\ pendingBefore = NoTime
  /\ pushed = FALSE
  /\ committed = FALSE
  /\ sync_failed = "none"
  /\ faulty = FALSE
  /\ stoppedAt = None
  /\ runs = <<>>
  /\ args = [idle_threshold |-> NoTime]
  /\ config = [idle_threshold |-> At(idle_threshold)]
  /\ init_push = "none"
  /\ prompted = "never"
  /\ waitingSince = NoTime

NextSettle == CheckIdentity \/ Observe \/ CommitAndPush \/ PullChanges \/ Tick

\* the loop of lines 353-355 never stops of itself
\* (a step of sync() is enabled exactly when the loop is at it, so weak
\* fairness of the step says that the loop does not stay at it for ever)
FairSettle ==
  /\ WF_vars(Tick)
  /\ \A p \in PollPcs : []<>(pc # p)

SpecSettle == InitSettle /\ [][NextSettle]_vars /\ FairSettle

\* ------------------------------------------------------------------ main's configuration
\* line 299: the default of config.get
DEFAULT_IDLE_THRESHOLD == 60

\* the values --idle_threshold (type=int) and the configuration file may hold
ThresholdValues == (0 - 1)..MaxThreshold

\* Python's truth value of an optional int: None and 0 are false
Truthy(v) == v # NoTime /\ v[1] # 0

\* Python's "a or b": a when a is true, else b
Or(a, b) == IF Truthy(a) THEN a ELSE b

\* config.get("idle_threshold", d)
config_get(c, d) == IF c.idle_threshold = NoTime THEN At(d) ELSE c.idle_threshold

\* line 299: args.idle_threshold or config.get("idle_threshold", 60)
resolve_idle_threshold(a, c) ==
  Or(a.idle_threshold, config_get(c, DEFAULT_IDLE_THRESHOLD))[1]

\* lines 294-299 and 323: the configuration is resolved and the engine built
\* with it (the vault is a repository and the identity is set: lines 330-350
\* change nothing)
ResolveConfiguration ==
  /\ pc = "main"
  /\ idle_threshold' = resolve_idle_threshold(args, config)
  /\ pc' = "check_identity"
  /\ UNCHANGED <<remote_url, runs, args, config, init_push, pending_changes_since,
                 localVars, now, repoVars, cmds, faulty, pendingBefore, pushed,
                 committed, sync_failed, stoppedAt, prompted, waitingSince>>

InitArgs ==
  /\ pc = "main"
  /\ args \in [idle_threshold : {NoTime} \cup {At(v) : v \in ThresholdValues}]
  /\ config \in [idle_threshold : {NoTime} \cup {At(v) : v \in ThresholdValues}]
  /\ idle_threshold = DEFAULT_IDLE_THRESHOLD
  /\ remote_url = None
  /\ pending_changes_since = NoTime
  /\ modified_files = <<>>
  /\ ahead = FALSE
  /\ branch = "none"
  /\ idle_time = NoTime
  /\ now = 1
  /\ tree \in [PathIds -> SettledFiles]
  /\ localAhead = 0
  /\ tracking = TRUE
  /\ remote = "same"
  /\ origin = "good"
  /\ email = TRUE
  /\ name = TRUE
  /\ cmds = <<>>
  /\ pendingBefore = NoTime
  /\ pushed = FALSE
  /\ committed = FALSE
  /\ sync_failed = "none"
  /\ faulty = FALSE
  /\ stoppedAt = None
  /\ runs = <<>>
  /\ init_push = "none"
  /\ prompted = "never"
  /\ waitingSince = NoTime

NextArgs ==
  \/ ResolveConfiguration
  \/ CheckIdentity \/ Observe \/ CommitAndPush \/ PullChanges \/ Tick

SpecArgs == InitArgs /\ [][NextArgs]_vars

\* ------------------------------------------------------------------ properties of a poll
Has(c) == \E k \in 1..Len(cmds) : cmds[k] = c

\* every b of the log has an a somewhere before it
AlwaysAfter(a, b) ==
  \A j \in 1..Len(cmds) : cmds[j] = b => \E k \in 1..(j - 1) : cmds[k] = a

\* sync() has returned
Polled == pc = "polled"

\* the poll saw modified paths
SawChanges == modified_files # <<>>

\* no path the poll saw is on disk
AllGone(t, files) == \A k \in 1..Len(files) : ~PathExists(t, files[k])

\* the commands of commit_and_push, add first
SyncCmds == <<"add", "commit", "pull", "push">>
IssuedOfSync == SelectSeq(cmds, LAMBDA c : c \in {"add", "commit", "pull", "push"})

\* C1: in a sync transition no push is issued unless a pull was issued before
\* it in the same transition, and the commit is issued before that pull.
C1_PullBeforePush ==
  /\ AlwaysAfter("pull", "push")
  /\ \A j \in 1..Len(cmds) :
       cmds[j] = "push" =>
         \E p \in 1..(j - 1) : cmds[p] = "pull" /\ \E c \in 1..(p - 1) : cmds[c] = "commit"
  /\ (branch \in {"sync", "retry"} => AlwaysAfter("commit", "pull"))

\* a sync transition that went as far as the push, a command having failed
C1_Witness == Polled /\ Has("push") /\ ~pushed /\ faulty

C3_ClearedByCleanPoll == (Polled /\ ~SawChanges) => pending_changes_since = NoTime

\* C4: with idle_threshold = 0 every poll that sees modified paths calls
\* commit_and_push in that poll.
C4_ZeroThresholdSyncs == (Polled /\ idle_threshold = 0 /\ SawChanges) => Has("add")

\* the tree is as the poll saw it: commit_and_push has not run
AsObserved == pc = "commit_and_push" \/ (Polled /\ ~Has("add"))

\* C5: get_latest_mtime is 0 for no path and for paths that are all gone, and
\* sync() takes that 0 as now: idle_time is 0 and, with idle_threshold > 0,
\* the poll does not call commit_and_push.
C5_ZeroIsNow ==
  /\ get_latest_mtime(tree, <<>>) = 0
  /\ (AsObserved /\ SawChanges /\ AllGone(tree, modified_files)) =>
       /\ get_latest_mtime(tree, modified_files) = 0
       /\ idle_time = At(0)
       /\ (idle_threshold > 0 => (Polled /\ ~Has("add")))

\* a poll, later than the first, whose only modified path is a deleted file
C5_Witness ==
  /\ Polled /\ now > 1 /\ idle_threshold > 0
  /\ modified_files = <<PathNames[2]>> /\ tree[2].kind = "D"
  /\ AllGone(tree, modified_files)

\* C6, as stated: a poll that sees modified paths idle for less than
\* idle_threshold issues no add, commit, pull or push and leaves
\* pending_changes_since set; one that sees them idle for idle_threshold or
\* more commits, pulls and pushes, and pending_changes_since is None.
C6_WaitOrSync ==
  (Polled /\ SawChanges) =>
    IF idle_time[1] < idle_threshold
      THEN IssuedOfSync = <<>> /\ pending_changes_since # NoTime
      ELSE /\ Has("commit") /\ Has("pull") /\ Has("push")
           /\ pending_changes_since = NoTime

\* C6, amended: ... one that sees them idle for idle_threshold or more calls
\* commit_and_push, which issues add, commit, pull and push in that order
\* unless add or commit raises and ends it there, and pending_changes_since
\* is None.
C6_WaitOrTrySync ==
  (Polled /\ SawChanges) =>
    IF idle_time[1] < idle_threshold
      THEN IssuedOfSync = <<>> /\ pending_changes_since # NoTime
      ELSE /\ pending_changes_since = NoTime
           /\ IssuedOfSync = CASE sync_failed = "add" -> <<"add">>
                               [] sync_failed = "commit" -> <<"add", "commit">>
                               [] OTHER -> SyncCmds

\* a poll that saw paths idle for idle_threshold and whose add raised
C6_Witness ==
  Polled /\ SawChanges /\ idle_time[1] >= idle_threshold /\ idle_threshold > 0
    /\ sync_failed = "add"

\* C7: a poll that finds the working tree clean while main has a commit the
\* remote lacks issues a push and creates no commit. Stated for polls in
\* which every command ran as the repository's state decides.
C7_CleanAheadPushes ==
  (Polled /\ ~SawChanges /\ ~faulty /\ ~IsDirty(tree) /\ localAhead >= 1)
    => (Has("push") /\ ~committed)

\* C10: sync() never raises, whatever commands fail, and the loop ends only
\* on KeyboardInterrupt.
C10_NeverFatal ==
  /\ pc # "crashed"
  /\ (pc = "exited" => stoppedAt \in PollPcs \cup {"polled"})
  /\ (pc \notin {"exited", "crashed"} => stoppedAt = None)

\* a poll later than the first has returned though its push raised
C10_Witness == Polled /\ now > 1 /\ sync_failed = "push" /\ faulty

\* ------------------------------------------------------------------ properties of a repair
PushCount == Len(SelectSeq(cmds, LAMBDA c : c = "push"))
NetCmds == SelectSeq(cmds, LAMBDA c : c \in {"push", "pull"})

\* C8: one run of repair_connection issues at most two pushes, the second
\* one only after the pull that follows the first, and nothing after it,
\* whatever the commands' outcomes.
C8_AtMostTwoPushes ==
  /\ PushCount <= 2
  /\ NetCmds \in {<<>>, <<"push">>, <<"push", "pull">>, <<"push", "pull", "push">>}
  /\ (PushCount = 2 => cmds[Len(cmds)] = "push")

\* a run whose retried push failed too
C8_Witness ==
  /\ pc = "repaired" /\ PushCount = 2
  /\ runs # <<>> /\ runs[Len(runs)].final = "failure"

\* the two runs were given the same remote_url and the machine and the
\* remote answered them alike
SameConditions(a, b) ==
  /\ a.url = b.url
  /\ a.cfg = b.cfg
  /\ a.seturl = b.seturl
  /\ a.net = b.net
  /\ a.net # "mixed"

\* C9: of two runs of repair_connection in a row, with the same remote_url,
\* nothing changed in between and the remote answering alike, the second
\* leaves origin's URL as the first left it and its last push ends as the
\* first's did.
C9_RepairIdempotent ==
  (Len(runs) = 2 /\ SameConditions(runs[1], runs[2])) =>
    /\ runs[2].origin = runs[1].origin
    /\ runs[2].final = runs[1].final

\* the first run succeeded through its fallback, the second at once
C9_Witness ==
  /\ pc = "repaired" /\ Len(runs) = 2 /\ SameConditions(runs[1], runs[2])
  /\ runs[1].url = "good" /\ runs[1].final = "success" /\ runs[2].final = "success"
  /\ PushCount = 1 /\ localAhead = 0 /\ tracking

\* ------------------------------------------------------------------ properties of a first launch
RemoteCmds == {"remote add", "remote set-url"}

\* a step of a poll: origin is as it was, no remote add or set-url is issued
PollKeepsOrigin ==
  pc \in PollPcs =>
    /\ origin' = origin
    /\ \A k \in 1..Len(cmds') : cmds'[k] \notin RemoteCmds

\* C11: no step of a poll changes whether origin exists or its URL, and no
\* poll issues remote add or remote set-url.
C11_PollsKeepOrigin == [][PollKeepsOrigin]_vars

\* initialize_repo has added origin and pushed to it, and a poll later
\* than the first has pulled from it
C11_Witness ==
  /\ Polled /\ now > 1 /\ init_push = "ok" /\ remote_url = "good" /\ origin = "good"
  /\ Has("pull") /\ ~faulty

\* C12: after an initial push that failed, a poll that finds the working
\* tree clean, every command of it running as the repository's state
\* decides, sees through is_ahead() that the initial commit is unpushed and
\* issues a push.
C12_InitialPushRetried ==
  (Polled /\ init_push = "failed" /\ origin = "good" /\ ~SawChanges /\ ~IsDirty(tree)
     /\ ~faulty /\ localAhead >= 1)
    => (ahead /\ Has("push"))

\* ------------------------------------------------------------------ properties of the loop's end
\* the process ended inside commit_and_push, a commit made and its push not
\* begun or not finished
CutAfterCommit ==
  /\ pc = "exited" /\ stoppedAt = "commit_and_push" /\ committed
  /\ cmds # <<>> /\ cmds[Len(cmds)] \in {"pull", "push"}

\* C13: the process ends on an interrupt only between polls, while main()
\* sleeps, and never between the commit and the push of a commit_and_push.
C13_CooperativeCancel ==
  /\ (pc = "exited" => stoppedAt = "polled")
  /\ ~CutAfterCommit

\* ------------------------------------------------------------------ properties of the fallback
LastRun == runs[Len(runs)]

\* C14: a run of repair_connection whose first push failed for a reason
\* other than diverging history issues no pull and no second push.
C14_FallbackOnlyOnDivergence ==
  (pc = "repaired" /\ runs # <<>> /\ LastRun.first = "other")
    => (~Has("pull") /\ PushCount = 1)

\* ------------------------------------------------------------------ properties of the identity prompt
\* C15: over a run of the poll loop check_identity calls input() in at most
\* one poll; a later poll does not prompt again, even when the identity is
\* still missing.
C15_PromptedAtMostOnce == prompted \in {"never", "once"}

\* ------------------------------------------------------------------ properties of a conflict
\* the poll's pull --rebase ran and stopped on a conflict
ConflictMet ==
  /\ Polled /\ Has("pull") /\ ~faulty
  /\ origin = "good" /\ tracking /\ ~TrackedDirty(tree) /\ remote = "conflict"

\* C16: a poll whose pull --rebase stops on a conflict reports it: the
\* failure it logs is the pull's.
C16_ConflictReported == ConflictMet => sync_failed = "pull"

\* ------------------------------------------------------------------ properties of the commit
\* C17: when commit_and_push has issued its pull, the changes the poll saw
\* are in a commit: the working tree has nothing uncommitted, also when no
\* command failed for a reason outside the repository's state. (Neither
\* pull nor push touches the tree's uncommitted changes, so the tree after
\* the poll is the tree the pull met.)
C17_CommittedBeforePull ==
  (Polled /\ SawChanges /\ Has("commit") /\ Has("pull") /\ ~faulty) => ~IsDirty(tree)

\* ------------------------------------------------------------------ properties of the first-seen time
\* C18: after a waiting poll pending_changes_since is the time of the first
\* of the waiting polls in a row that this poll belongs to.
C18_FirstSeenTime ==
  (Polled /\ branch = "wait") => pending_changes_since = waitingSince

\* ------------------------------------------------------------------ properties of settling
\* C19: in a vault nobody touches any more, polls go on until one of them
\* calls commit_and_push, unless one of them sees no modified path or a
\* command fails for a reason outside the repository's state.
C19_EventuallySyncs == <>((Polled /\ ~SawChanges) \/ Has("add") \/ faulty)

\* ------------------------------------------------------------------ properties of the configuration
\* C20: the engine runs with the --idle_threshold value when one is given,
\* 0 included, else with the configuration file's value, else with 60.
C20_ThresholdFromCommandLine ==
  pc # "main" =>
    idle_threshold = IF args.idle_threshold # NoTime THEN args.idle_threshold[1]
                     ELSE IF config.idle_threshold # NoTime THEN config.idle_threshold[1]
                     ELSE DEFAULT_IDLE_THRESHOLD

====
